---- MODULE Spec2Model ----
(***************************************************************************)
(* Model of compute_roi_table (src/Weird_Science.py): the per-region       *)
(* robust statistics table of a measurement volume against a label volume. *)
(*                                                                         *)
(* Volumes are modelled flattened: a volume is a sequence of voxels and    *)
(* its shape is its length.  Measurement values are small integers or one  *)
(* of the non-finite values NaN / Inf.  Statistics are exact rationals     *)
(* <<num, den>> in lowest terms (den > 0), so no float rounding is         *)
(* modelled.  trim is a rational <<num, den>> too.                         *)
(***************************************************************************)
EXTENDS Integers, Sequences, FiniteSets, TLC

\* ------------------------------------------------------------------ bounds
MaxVox == 3
MaxVal == 2
MaxLabel == 1
MaxMinVoxels == 2
TrimDen == 3

\* ------------------------------------------------------- program constants
Scale == 1000

VARIABLES md_data, atlas_data, min_voxels, trim,
          pc, labels, it, vals, w, rows, df, err

vars == <<md_data, atlas_data, min_voxels, trim,
          pc, labels, it, vals, w, rows, df, err>>

\* ------------------------------------------------------------ input values
Num(v) == [kind |-> "num", v |-> v]
NaN == [kind |-> "nan", v |-> 0]
Inf == [kind |-> "inf", v |-> 0]

Voxel == {Num(v) : v \in 1..MaxVal} \cup {NaN, Inf}
Label == (0 - 1)..MaxLabel

SeqsUpTo(S, n) == UNION {[1..m -> S] : m \in 1..n}

\* np.isfinite
isfinite(x) == x.kind = "num"

\* ---------------------------------------------------------------- rationals
RECURSIVE Gcd(_, _)
Gcd(a, b) == IF b = 0 THEN a ELSE Gcd(b, a % b)

Abs(x) == IF x < 0 THEN 0 - x ELSE x

\* the rational n/d (d > 0) in lowest terms
Rat(n, d) ==
    LET g == Gcd(Abs(n), d)
    IN  IF n = 0 THEN <<0, 1>> ELSE <<n \div g, d \div g>>

RatSub(a, b) == Rat(a[1] * b[2] - b[1] * a[2], a[2] * b[2])
RatMulInt(a, k) == Rat(a[1] * k, a[2])
RatLeq(a, b) == a[1] * b[2] <= b[1] * a[2]

\* ------------------------------------------------------------------ helpers
RECURSIVE Insert(_, _)
\* insert x in the ascending sequence s, after the elements equal to it
Insert(s, x) ==
    IF s = <<>> THEN <<x>>
    ELSE IF x < Head(s) THEN <<x>> \o s
    ELSE <<Head(s)>> \o Insert(Tail(s), x)

RECURSIVE sort(_)
\* np.sort: the values of s in ascending order
sort(s) == IF s = <<>> THEN <<>> ELSE Insert(sort(SubSeq(s, 1, Len(s) - 1)), s[Len(s)])

RECURSIVE SetToSortedSeq(_)
SetToSortedSeq(S) ==
    IF S = {} THEN <<>>
    ELSE LET m == CHOOSE x \in S : \A y \in S : x <= y
         IN  <<m>> \o SetToSortedSeq(S \ {m})

RECURSIVE Sum(_)
Sum(s) == IF s = <<>> THEN 0 ELSE Head(s) + Sum(Tail(s))

\* ----------------------------------------------------------- the algorithm
\* mutant of unique: sorted, duplicates kept
uniqueKeepDuplicates(a) == sort(a)

\* labels = np.unique(atlas_data): the distinct labels, ascending
unique(a) == SetToSortedSeq({a[p] : p \in DOMAIN a})

\* labels = labels[labels != 0]
DropBackground(l) == SelectSeq(l, LAMBDA x : x # 0)

\* md_data[atlas_data == lab], for volumes of the same shape
MaskSelect(md, atlas, lab) ==
    LET F[i \in 0..Len(md)] ==
            IF i = 0 THEN <<>>
            ELSE IF atlas[i] = lab THEN Append(F[i - 1], md[i]) ELSE F[i - 1]
    IN  F[Len(md)]

\* mutant of FiniteVals: the non-finite entries are kept (read as 0)
FiniteValsKeepAll(sel) == [p \in DOMAIN sel |-> sel[p].v]

\* vals[np.isfinite(vals)], as plain numbers
FiniteVals(sel) ==
    LET f == SelectSeq(sel, isfinite)
    IN  [p \in DOMAIN f |-> f[p].v]

\* mutant of TooSmall: a region of exactly min_voxels values is dropped too
TooSmallInclusive(v, minv) == Len(v) <= minv

\* vals.size < min_voxels
TooSmall(v, minv) == Len(v) < minv

\* int(limit * n) of winsorize
TrimCount(n, t) == (t[1] * n) \div t[2]

RECURSIVE InsertIdx(_, _, _)
InsertIdx(a, idx, p) ==
    IF idx = <<>> THEN <<p>>
    ELSE IF a[p] < a[Head(idx)] THEN <<p>> \o idx
    ELSE <<Head(idx)>> \o InsertIdx(a, Tail(idx), p)

RECURSIVE argsortUpTo(_, _)
argsortUpTo(a, n) == IF n = 0 THEN <<>> ELSE InsertIdx(a, argsortUpTo(a, n - 1), n)

\* a.argsort(): the positions of a in ascending order of value
argsort(a) == argsortUpTo(a, Len(a))

\* a[idx[from:]] = value  /  a[idx[:to]] = value, on 1-based positions
AssignAt(a, P, value) == [p \in DOMAIN a |-> IF p \in P THEN value ELSE a[p]]

\* the limits stats.mstats.winsorize rejects (ValueError)
WinsorizeRejects(t) == t[1] < 0 \/ t[1] > t[2]

\* the inputs on which winsorize indexes out of range (IndexError)
WinsorizeOutOfRange(a, t) == TrimCount(Len(a), t) >= Len(a)

\* mutant of winsorize: only the low side is clamped
winsorizeLowOnly(a, t) ==
    LET idx == argsort(a)
        k == TrimCount(Len(a), t)
    IN  AssignAt(a, {idx[j] : j \in 1..k}, a[idx[k + 1]])

\* stats.mstats.winsorize(a, limits=(t, t)): low side first, then the high
\* side on the array the low side has already changed
winsorize(a, t) ==
    LET n == Len(a)
        idx == argsort(a)
        k == TrimCount(n, t)
        low == IF t[1] # 0
               THEN AssignAt(a, {idx[j] : j \in 1..k}, a[idx[k + 1]])
               ELSE a
    IN  AssignAt(low, {idx[j] : j \in (n - k + 1)..n}, low[idx[n - k]])

\* np.mean
mean(a) == Rat(Sum(a), Len(a))

\* np.median: the middle order statistic, or the mean of the two middle ones
median(a) ==
    LET s == sort(a)
        n == Len(a)
    IN  IF n % 2 = 1 THEN Rat(s[(n + 1) \div 2], 1)
        ELSE Rat(s[n \div 2] + s[n \div 2 + 1], 2)

\* mutant of percentile: the lower order statistic, without interpolation
percentileLower(a, q) == Rat(sort(a)[((Len(a) - 1) * q) \div 100 + 1], 1)

\* np.percentile(a, q): linear interpolation between adjacent order statistics
percentile(a, q) ==
    LET s == sort(a)
        n == Len(a)
        pos == (n - 1) * q
        lo == pos \div 100 + 1
        fr == pos % 100
    IN  IF fr = 0 THEN Rat(s[lo], 1)
        ELSE Rat(100 * s[lo] + fr * (s[lo + 1] - s[lo]), 100)

\* the dict appended to rows
RawRow(lab, v, ww) ==
    LET q1 == percentile(ww, 25)
        q3 == percentile(ww, 75)
    IN  [RegionLabel |-> lab,
         n_vox |-> Len(v),
         MeanMD_raw |-> mean(ww),
         MedianMD_raw |-> median(ww),
         Q1_raw |-> q1,
         Q3_raw |-> q3,
         IQR_raw |-> RatSub(q3, q1)]

\* ------------------------------------------------------------- data frames
RawColumns == <<"RegionLabel", "n_vox", "MeanMD_raw", "MedianMD_raw",
                "Q1_raw", "Q3_raw", "IQR_raw">>

\* mutant of EmptyColumns: MedianMD listed before MeanMD
EmptyColumnsSwapped == <<"RegionLabel", "n_vox", "MedianMD", "MeanMD", "Q1", "Q3", "IQR">>

\* pd.DataFrame(columns=[...]) of the no-rows branch
EmptyColumns == <<"RegionLabel", "n_vox", "MeanMD", "MedianMD", "Q1", "Q3", "IQR">>

EmptyFrame == [columns |-> EmptyColumns, data |-> <<>>]

\* pd.DataFrame(rows): the columns are the keys of the dicts, in order
DataFrame(rs) == [columns |-> RawColumns, data |-> rs]

\* the (src, dst) pairs of the conversion loop
Conversions == <<<<"MeanMD_raw", "MeanMD">>, <<"MedianMD_raw", "MedianMD">>,
                 <<"Q1_raw", "Q1">>, <<"Q3_raw", "Q3">>, <<"IQR_raw", "IQR">>>>

\* mutant of ScaleStat: the wrong power of ten
ScaleStatHundred(x) == RatMulInt(x, 100)

\* df[src] * 1e3, on one value
ScaleStat(x) == RatMulInt(x, Scale)

\* df[dst] = df[src] * 1e3: a new column, appended after the existing ones
AddScaled(f, src, dst) ==
    [columns |-> Append(f.columns, dst),
     data |-> [r \in DOMAIN f.data |->
                 [c \in DOMAIN f.data[r] \cup {dst} |->
                     IF c = dst THEN ScaleStat(f.data[r][src]) ELSE f.data[r][c]]]]

RECURSIVE Convert(_, _)
Convert(f, n) ==
    IF n = 0 THEN f
    ELSE AddScaled(Convert(f, n - 1), Conversions[n][1], Conversions[n][2])

\* c.endswith("_raw")
EndsWithRaw(c) == c \in {Conversions[n][1] : n \in DOMAIN Conversions}

\* df.drop(columns=[c for c in df.columns if c.endswith("_raw")])
DropRaw(f) ==
    LET keep == SelectSeq(f.columns, LAMBDA c : ~EndsWithRaw(c))
        K == {keep[n] : n \in DOMAIN keep}
    IN  [columns |-> keep,
         data |-> [r \in DOMAIN f.data |-> [c \in K |-> f.data[r][c]]]]

Perms(n) == {p \in [1..n -> 1..n] : \A a, b \in 1..n : a # b => p[a] # p[b]}

\* mutant of SortKey: the table is ordered by the wrong column
SortKeyLabel(r) == <<r["RegionLabel"], 1>>

\* the key sort_values orders by
SortKey(r) == r["MedianMD"]

\* mutant of SortValues: ascending order
SortValuesAscending(f) ==
    LET n == Len(f.data)
    IN  {[columns |-> f.columns, data |-> [r \in 1..n |-> f.data[p[r]]]] :
            p \in {q \in Perms(n) :
                     \A a, b \in 1..n :
                        a < b => RatLeq(SortKey(f.data[q[a]]), SortKey(f.data[q[b]]))}}

\* df.sort_values("MedianMD", ascending=False).reset_index(drop=True): the
\* default kind is quicksort, which is not a stable sort, so every descending
\* arrangement of the rows is a possible outcome
SortValues(f) ==
    LET n == Len(f.data)
    IN  {[columns |-> f.columns, data |-> [r \in 1..n |-> f.data[p[r]]]] :
            p \in {q \in Perms(n) :
                     \A a, b \in 1..n :
                        a < b => RatLeq(SortKey(f.data[q[b]]), SortKey(f.data[q[a]]))}}

\* ------------------------------------------------------------ state machine
\* df before the function has built a table
NoFrame == [columns |-> <<>>, data |-> <<>>]

Locals ==
    /\ pc = "call"
    /\ labels = <<>>
    /\ it = 0
    /\ vals = <<>>
    /\ w = <<>>
    /\ rows = <<>>
    /\ df = NoFrame
    /\ err = "none"

\* a call within the documented input contract: volumes of one shape,
\* min_voxels >= 1 and 0 <= trim < 0.5
Init ==
    /\ \E n \in 1..MaxVox :
          /\ md_data \in [1..n -> Voxel]
          /\ atlas_data \in [1..n -> Label]
    /\ min_voxels \in 1..MaxMinVoxels
    /\ trim \in {<<t, TrimDen>> : t \in {u \in 0..TrimDen : 2 * u < TrimDen}}
    /\ Locals

\* any call: the shapes may differ, min_voxels may be 0, trim may lie
\* anywhere in [-1/TrimDen, 1]
InitAny ==
    /\ md_data \in SeqsUpTo(Voxel, MaxVox)
    /\ atlas_data \in SeqsUpTo(Label, MaxVox)
    /\ min_voxels \in 0..MaxMinVoxels
    /\ trim \in {<<t, TrimDen>> : t \in (0 - 1)..TrimDen}
    /\ Locals

SameShape == Len(md_data) = Len(atlas_data)

\* lines 18-21
Enumerate ==
    /\ pc = "call"
    /\ labels' = DropBackground(unique(atlas_data))
    /\ it' = 1
    /\ pc' = "loop"
    /\ UNCHANGED <<md_data, atlas_data, min_voxels, trim, vals, w, rows, df, err>>

InLoop == pc = "loop" /\ it <= Len(labels)

\* line 23 on volumes of different shapes: the boolean index does not match
RaiseShape ==
    /\ InLoop
    /\ ~SameShape
    /\ pc' = "raised"
    /\ err' = "IndexError"
    /\ UNCHANGED <<md_data, atlas_data, min_voxels, trim, labels, it, vals, w, rows, df>>

\* lines 23-26: the region is too small
SkipRegion ==
    /\ InLoop
    /\ SameShape
    /\ LET v == FiniteVals(MaskSelect(md_data, atlas_data, labels[it]))
       IN  /\ TooSmall(v, min_voxels)
           /\ vals' = v
    /\ it' = it + 1
    /\ UNCHANGED <<md_data, atlas_data, min_voxels, trim, pc, labels, w, rows, df, err>>

\* lines 23-29: winsorize raises
RaiseWinsorize ==
    /\ InLoop
    /\ SameShape
    /\ LET v == FiniteVals(MaskSelect(md_data, atlas_data, labels[it]))
       IN  /\ ~TooSmall(v, min_voxels)
           /\ WinsorizeRejects(trim) \/ WinsorizeOutOfRange(v, trim)
           /\ vals' = v
           /\ err' = IF WinsorizeRejects(trim) THEN "ValueError" ELSE "IndexError"
    /\ pc' = "raised"
    /\ UNCHANGED <<md_data, atlas_data, min_voxels, trim, labels, it, w, rows, df>>

\* lines 23-43: the region qualifies and its row is appended
AppendRegion ==
    /\ InLoop
    /\ SameShape
    /\ LET v == FiniteVals(MaskSelect(md_data, atlas_data, labels[it]))
       IN  /\ ~TooSmall(v, min_voxels)
           /\ ~WinsorizeRejects(trim)
           /\ ~WinsorizeOutOfRange(v, trim)
           /\ vals' = v
           /\ w' = winsorize(v, trim)
           /\ rows' = Append(rows, RawRow(labels[it], v, winsorize(v, trim)))
    /\ it' = it + 1
    /\ UNCHANGED <<md_data, atlas_data, min_voxels, trim, pc, labels, df, err>>

\* lines 45-49
ReturnEmpty ==
    /\ pc = "loop"
    /\ it > Len(labels)
    /\ rows = <<>>
    /\ df' = EmptyFrame
    /\ pc' = "returned"
    /\ UNCHANGED <<md_data, atlas_data, min_voxels, trim, labels, it, vals, w, rows, err>>

\* lines 51-65
ReturnTable ==
    /\ pc = "loop"
    /\ it > Len(labels)
    /\ rows # <<>>
    /\ df' \in SortValues(DropRaw(Convert(DataFrame(rows), Len(Conversions))))
    /\ pc' = "returned"
    /\ UNCHANGED <<md_data, atlas_data, min_voxels, trim, labels, it, vals, w, rows, err>>

\* within the contract neither raise is enabled
Next ==
    \/ Enumerate
    \/ SkipRegion
    \/ AppendRegion
    \/ ReturnEmpty
    \/ ReturnTable

Spec == Init /\ [][Next]_vars

NextAny ==
    \/ Enumerate
    \/ RaiseShape
    \/ SkipRegion
    \/ RaiseWinsorize
    \/ AppendRegion
    \/ ReturnEmpty
    \/ ReturnTable

SpecAny == InitAny /\ [][NextAny]_vars

\* ------------------------------------------------------------------ claims
Returned == pc = "returned"

Range(s) == {s[p] : p \in DOMAIN s}

\* the positions of the label volume that carry label L
Region(L) == {p \in DOMAIN atlas_data : atlas_data[p] = L}

\* the number of finite measurement values in the region of L
FiniteCount(L) == Cardinality({p \in Region(L) : md_data[p] \notin {NaN, Inf}})

Qualifies(L) == L # 0 /\ Region(L) # {} /\ FiniteCount(L) >= min_voxels

RowsFor(L) == {r \in DOMAIN df.data : df.data[r]["RegionLabel"] = L}

\* the loop has just appended the row of the label it last looked at
LastAppended ==
    /\ pc \in {"loop", "returned"}
    /\ it > 1
    /\ rows # <<>>
    /\ rows[Len(rows)]["RegionLabel"] = labels[it - 1]

\* the value at rank r (1 = lowest) of the sequence V, by counting
OrderStat(V, r) ==
    CHOOSE x \in Range(V) :
        /\ Cardinality({p \in DOMAIN V : V[p] < x}) < r
        /\ r <= Cardinality({p \in DOMAIN V : V[p] <= x})

Clamp(x, lo, hi) == IF x < lo THEN lo ELSE IF x > hi THEN hi ELSE x

\* the q-th percentile of V by linear interpolation between the order
\* statistics next to the fractional rank 1 + (|V| - 1) * q / 100
LinearPercentile(V, q) ==
    LET h == (Len(V) - 1) * q
        below == OrderStat(V, h \div 100 + 1)
        above == OrderStat(V, IF h % 100 = 0 THEN h \div 100 + 1 ELSE h \div 100 + 2)
    IN  <<(100 - (h % 100)) * below + (h % 100) * above, 100>>

RatEq(a, b) == a[1] * b[2] = b[1] * a[2]
RatLess(a, b) == a[1] * b[2] < b[1] * a[2]

\* C1: for volumes of one shape and min_voxels >= 1, the returned table has
\* exactly one row for every non-zero label whose finite-value count is at
\* least min_voxels and no row for any other label (label 0 and the labels
\* with fewer finite values are absent).
C1_OneRowPerQualifyingLabel ==
    Returned =>
        /\ \A L \in Label : Cardinality(RowsFor(L)) = IF Qualifies(L) THEN 1 ELSE 0
        /\ Len(df.data) = Cardinality({L \in Label : Qualifies(L)})

\* a returned table with a row, next to a background region and a region one
\* finite value short of min_voxels
C1_Witness ==
    /\ Returned
    /\ Region(0) # {}
    /\ \E L \in Label : Qualifies(L) /\ RowsFor(L) # {}
    /\ \E L \in Label : L # 0 /\ Region(L) # {} /\ FiniteCount(L) = min_voxels - 1

\* C2: a call with volumes of different shapes, with trim outside [0, 0.5) or
\* with min_voxels < 1 ends in an error: it never returns a table and never
\* produces a statistics row.
Malformed ==
    \/ Len(md_data) # Len(atlas_data)
    \/ trim[1] < 0
    \/ 2 * trim[1] >= trim[2]
    \/ min_voxels < 1

C2_FailsFast == Malformed => (~Returned /\ rows = <<>>)

\* C3: the rows of the returned table are in descending order of MedianMD.
C3_SortedDescending ==
    Returned =>
        \A r \in 1..(Len(df.data) - 1) :
            RatLeq(df.data[r + 1]["MedianMD"], df.data[r]["MedianMD"])

\* a returned table whose rows were collected in ascending order of median
C3_Witness ==
    /\ Returned
    /\ Len(df.data) >= 2
    /\ RatLess(rows[1]["MedianMD_raw"], rows[2]["MedianMD_raw"])
    /\ df.data[1]["RegionLabel"] = rows[2]["RegionLabel"]

\* C4: n_vox of every row is the number of finite measurement values in the
\* region of the row's label, counted before winsorization, and is at least
\* min_voxels; the values the statistics are computed from are exactly the
\* finite values of the region.
C4_FiniteCount ==
    /\ Returned =>
         \A r \in DOMAIN df.data :
            /\ df.data[r]["n_vox"] = FiniteCount(df.data[r]["RegionLabel"])
            /\ df.data[r]["n_vox"] >= min_voxels
    /\ LastAppended =>
         /\ Len(vals) = FiniteCount(labels[it - 1])
         /\ \A x \in 1..MaxVal :
               Cardinality({p \in DOMAIN vals : vals[p] = x})
                 = Cardinality({p \in Region(labels[it - 1]) : md_data[p] = Num(x)})

\* a row whose region holds a NaN and an infinite value beside finite ones
C4_Witness ==
    /\ Returned
    /\ \E r \in DOMAIN df.data :
          LET R == Region(df.data[r]["RegionLabel"])
          IN  /\ \E p \in R : md_data[p] = NaN
              /\ \E p \in R : md_data[p] = Inf
              /\ df.data[r]["n_vox"] = Cardinality(R) - 2

\* C5: in every row Q1 <= MedianMD <= Q3 and IQR = Q3 - Q1 >= 0, and the
\* three quartiles are the 25th, 50th and 75th percentiles, by linear
\* interpolation between adjacent order statistics, of the winsorized values.
C5_Quartiles ==
    /\ Returned =>
         \A r \in DOMAIN df.data :
            /\ RatLeq(df.data[r]["Q1"], df.data[r]["MedianMD"])
            /\ RatLeq(df.data[r]["MedianMD"], df.data[r]["Q3"])
            /\ RatEq(df.data[r]["IQR"], RatSub(df.data[r]["Q3"], df.data[r]["Q1"]))
            /\ RatLeq(<<0, 1>>, df.data[r]["IQR"])
    /\ LastAppended =>
         /\ RatEq(rows[Len(rows)]["Q1_raw"], LinearPercentile(w, 25))
         /\ RatEq(rows[Len(rows)]["MedianMD_raw"], LinearPercentile(w, 50))
         /\ RatEq(rows[Len(rows)]["Q3_raw"], LinearPercentile(w, 75))

\* a row whose quartiles are interpolated and strictly apart
C5_Witness ==
    /\ Returned
    /\ \E r \in DOMAIN df.data :
          /\ RatLess(df.data[r]["Q1"], df.data[r]["MedianMD"])
          /\ RatLess(df.data[r]["MedianMD"], df.data[r]["Q3"])
          /\ \E j \in DOMAIN rows :
                /\ rows[j]["RegionLabel"] = df.data[r]["RegionLabel"]
                /\ rows[j]["Q1_raw"][2] # 1

\* C6: for 0 <= trim < 0.5 and k = floor(trim * |V|) the winsorized sequence
\* has the length of V and is V with the values below the value at rank k+1
\* raised to it and the values above the value at rank |V|-k lowered to it,
\* every other value unchanged; with trim = 0 it is V itself and the raw
\* statistics are those of V.
C6_Winsorized ==
    LastAppended =>
        LET n == Len(vals)
            k == (trim[1] * n) \div trim[2]
            row == rows[Len(rows)]
        IN  /\ Len(w) = n
            /\ \A p \in 1..n :
                  w[p] = Clamp(vals[p], OrderStat(vals, k + 1), OrderStat(vals, n - k))
            /\ trim[1] = 0 =>
                  /\ w = vals
                  /\ RatEq(row["MeanMD_raw"], <<Sum(vals), n>>)
                  /\ RatEq(row["MedianMD_raw"], LinearPercentile(vals, 50))
                  /\ RatEq(row["Q1_raw"], LinearPercentile(vals, 25))
                  /\ RatEq(row["Q3_raw"], LinearPercentile(vals, 75))

\* a region of which k >= 1 values were clamped on one side and one value
\* was left as it was
C6_Witness ==
    /\ LastAppended
    /\ (trim[1] * Len(vals)) \div trim[2] >= 1
    /\ \E p \in DOMAIN w : w[p] # vals[p]
    /\ \E p \in DOMAIN w : w[p] = vals[p]

\* C7: when no region qualifies the returned table is an explicitly empty
\* table, and an empty table has the columns of a non-empty one, in the same
\* order: RegionLabel, n_vox, MeanMD, MedianMD, Q1, Q3, IQR.
C7_EmptyTableSchema ==
    Returned =>
        /\ df.columns = <<"RegionLabel", "n_vox", "MeanMD", "MedianMD", "Q1", "Q3", "IQR">>
        /\ \A r \in DOMAIN df.data : DOMAIN df.data[r] = Range(df.columns)
        /\ (\A L \in Label : ~Qualifies(L)) => df.data = <<>>

\* an empty table returned for a volume with a region that was too small
C7_Witness ==
    /\ Returned
    /\ df.data = <<>>
    /\ \E L \in Label : L # 0 /\ Region(L) # {}

\* Scenario B: label 5, 40 finite values all equal to 2, trim = 0.025
ScenarioB ==
    LET V == [p \in 1..40 |-> 2]
    IN  DropRaw(Convert(DataFrame(<<RawRow(5, V, winsorize(V, <<1, 40>>))>>),
                        Len(Conversions))).data[1]

\* the raw statistic each reported statistic is derived from
RawName == [MeanMD |-> "MeanMD_raw", MedianMD |-> "MedianMD_raw", Q1 |-> "Q1_raw",
            Q3 |-> "Q3_raw", IQR |-> "IQR_raw"]

\* C8: every row of the returned table carries the label and n_vox of a
\* collected row unscaled, and MeanMD, MedianMD, Q1, Q3 and IQR equal to that
\* row's raw statistics times 1000; label 5 with 40 values all equal to 2
\* gives {5, 40, 2000, 2000, 2000, 2000, 0}.
C8_Rescaled ==
    /\ Returned =>
         /\ Len(df.data) = Len(rows)
         /\ \A r \in DOMAIN df.data :
               \E j \in DOMAIN rows :
                  /\ df.data[r]["RegionLabel"] = rows[j]["RegionLabel"]
                  /\ df.data[r]["n_vox"] = rows[j]["n_vox"]
                  /\ \A c \in DOMAIN RawName :
                        df.data[r][c][1] * rows[j][RawName[c]][2]
                          = 1000 * rows[j][RawName[c]][1] * df.data[r][c][2]
    /\ ScenarioB = [RegionLabel |-> 5, n_vox |-> 40, MeanMD |-> <<2000, 1>>,
                    MedianMD |-> <<2000, 1>>, Q1 |-> <<2000, 1>>,
                    Q3 |-> <<2000, 1>>, IQR |-> <<0, 1>>]

\* a returned row of a region whose finite values are all equal to 2
C8_Witness ==
    /\ Returned
    /\ \E r \in DOMAIN df.data :
          /\ df.data[r]["n_vox"] >= 2
          /\ df.data[r]["MeanMD"] = <<2000, 1>>
          /\ df.data[r]["Q1"] = <<2000, 1>>
          /\ df.data[r]["Q3"] = <<2000, 1>>
          /\ df.data[r]["IQR"] = <<0, 1>>

\* C9 as claimed: every RegionLabel is a positive integer and no two rows
\* carry the same RegionLabel, negative labels in the volume included.
C9_PositiveUnique ==
    Returned =>
        /\ \A r \in DOMAIN df.data : df.data[r]["RegionLabel"] > 0
        /\ \A r, q \in DOMAIN df.data :
              df.data[r]["RegionLabel"] = df.data[q]["RegionLabel"] => r = q

\* C9 as amended: every RegionLabel is a non-zero integer label of the
\* volume (negative where the label is negative) and no two rows carry the
\* same RegionLabel.
C9_NonZeroUnique ==
    Returned =>
        /\ \A r \in DOMAIN df.data :
              /\ df.data[r]["RegionLabel"] \in Range(atlas_data)
              /\ df.data[r]["RegionLabel"] # 0
        /\ \A r, q \in DOMAIN df.data :
              df.data[r]["RegionLabel"] = df.data[q]["RegionLabel"] => r = q

\* a table with the row of a negative label and the row of a positive one,
\* from a volume where both labels cover several voxels or lie beside 0
C9_Witness ==
    /\ Returned
    /\ \E r, q \in DOMAIN df.data :
          df.data[r]["RegionLabel"] < 0 /\ df.data[q]["RegionLabel"] > 0
    /\ Len(atlas_data) > Len(df.data)

====
